---- MODULE Spec2Model ----
(***************************************************************************)
(* A model of the KeyClaim Node.js SDK client (src/unnamed/part_000):      *)
(* construction, generateResponse, createChallenge, validateChallenge,     *)
(* validate and the error normalisation of handleError.                    *)
(*                                                                         *)
(* JavaScript values are tagged records, so that truthiness (||, !x),      *)
(* default parameters, typeof and JSON.stringify are computed the way the  *)
(* language computes them.  Strings are TLA+ strings.  The digests of      *)
(* node's crypto module are symbolic, collision-free terms.                *)
(***************************************************************************)
EXTENDS Integers, Sequences, FiniteSets, TLC

VARIABLES
    ctorArgs,   \* the arguments of the one `new KeyClaimClient(...)` made so far
    ctorError,  \* what that construction threw (name = "none" when it returned)
    client,     \* the client's private fields (exists = FALSE before/without construction)
    calls       \* the method calls made on the client, by call id

vars == <<ctorArgs, ctorError, client, calls>>

----------------------------------------------------------------------------
(* Bounds of the model *)

\* the number of calls that may be in progress at once on the client
NumCalls == 2

CallIds == 1 .. NumCalls

----------------------------------------------------------------------------
(* JavaScript values *)

JsUndefined == [t |-> "undefined", s |-> "", n |-> 0]
JsString(s) == [t |-> "string", s |-> s, n |-> 0]
JsNumber(n) == [t |-> "number", s |-> "", n |-> n]
JsBoolean(b) == [t |-> "boolean", s |-> "", n |-> IF b THEN 1 ELSE 0]
\* a plain object or array, kept as the text JSON.stringify gives for it
JsObject(json) == [t |-> "object", s |-> json, n |-> 0]

\* ToBoolean: what `!x` and `x || y` test
Truthy(v) ==
    CASE v.t = "undefined" -> FALSE
      [] v.t = "string"    -> v.s # ""
      [] v.t = "number"    -> v.n # 0
      [] v.t = "boolean"   -> v.n = 1
      [] OTHER             -> TRUE

\* x || y
JsOr(x, y) == IF Truthy(x) THEN x ELSE y

\* a default parameter (p = d): d replaces undefined only
DefaultParam(v, d) == IF v.t = "undefined" THEN d ELSE v

\* JSON.stringify of a value that is not a string
JsonStringify(v) ==
    CASE v.t = "number"  -> ToString(v.n)
      [] v.t = "boolean" -> IF v.n = 1 THEN "true" ELSE "false"
      [] v.t = "object"  -> v.s
      [] OTHER           -> "undefined"

\* string conversion in `${x}` and in x + "..."
ToStr(v) ==
    CASE v.t = "string"    -> v.s
      [] v.t = "undefined" -> "undefined"
      [] OTHER             -> JsonStringify(v)

\* String.prototype.startsWith
StartsWith(s, p) == Len(s) >= Len(p) /\ SubSeq(s, 1, Len(p)) = p

----------------------------------------------------------------------------
(* node crypto, as symbolic digests *)

\* crypto.createHash('sha256').update(data).digest('hex')
Sha256Hex(data) == "sha256(" \o data \o ")"

\* crypto.createHmac('sha256', key).update(data).digest('hex')
HmacSha256Hex(key, data) == "hmac(" \o key \o ";" \o data \o ")"

----------------------------------------------------------------------------
(* HTTP bodies, responses and errors *)

\* response.data after axios decoded it: nothing ("" for an empty body), a text
\* that is not JSON, or an object with some of the fields the client reads
Body(kind, text, hasValid, valid, error, message, challenge, signature, quota) ==
    [kind |-> kind, text |-> text, hasValid |-> hasValid, valid |-> valid,
     error |-> error, message |-> message, challenge |-> challenge,
     signature |-> signature, quota |-> quota]

EmptyBody ==
    Body("empty", "", FALSE, JsUndefined, JsUndefined, JsUndefined, JsUndefined,
         JsUndefined, JsUndefined)
TextBody(text) ==
    Body("text", text, FALSE, JsUndefined, JsUndefined, JsUndefined, JsUndefined,
         JsUndefined, JsUndefined)
ObjectBody(hasValid, valid, error, message, challenge, signature, quota) ==
    Body("object", "", hasValid, valid, error, message, challenge, signature, quota)

\* ToBoolean of response.data
BodyTruthy(b) == b.kind # "empty"

\* data?.error, data?.message, data.challenge: a property of a string is undefined
BodyError(b) == IF b.kind = "object" THEN b.error ELSE JsUndefined
BodyMessage(b) == IF b.kind = "object" THEN b.message ELSE JsUndefined
BodyChallenge(b) == IF b.kind = "object" THEN b.challenge ELSE JsUndefined

\* what the server (or the network) answers to one request
HttpReply(status, data) == [arrived |-> TRUE, status |-> status, data |-> data]
NoReply == [arrived |-> FALSE, status |-> 0, data |-> EmptyBody]

Is2xx(reply) == reply.arrived /\ reply.status >= 200 /\ reply.status < 300

\* an Error object: name, message, KeyClaimError's code and statusCode, and
\* AxiosError's response and request
Error(name, message, code, statusCode, hasResponse, hasRequest, reply) ==
    [name |-> name, message |-> message, code |-> code, statusCode |-> statusCode,
     hasResponse |-> hasResponse, hasRequest |-> hasRequest, reply |-> reply]

NoError == Error("none", "", JsUndefined, JsUndefined, FALSE, FALSE, NoReply)

\* new KeyClaimError(message, code, statusCode)
KeyClaimError(message, code, statusCode) ==
    Error("KeyClaimError", message, code, statusCode, FALSE, FALSE, NoReply)

\* a TypeError thrown by the runtime
TypeError(message) ==
    Error("TypeError", message, JsUndefined, JsUndefined, FALSE, FALSE, NoReply)

\* the error axios rejects a request with: the response when one arrived
\* (status outside 2xx), else only the request
AxiosError(reply) ==
    IF reply.arrived
    THEN Error("AxiosError", "Request failed with status code " \o ToString(reply.status),
               JsUndefined, JsUndefined, TRUE, TRUE, reply)
    ELSE Error("AxiosError", "Network Error", JsUndefined, JsUndefined, FALSE, TRUE, NoReply)

\* how a call ended: it returned a value (a string for generateResponse, a body
\* for the three request methods) or it threw
ReturnedJs(v) == [state |-> "returned", js |-> v, body |-> EmptyBody, error |-> NoError]
ReturnedBody(b) == [state |-> "returned", js |-> JsUndefined, body |-> b, error |-> NoError]
Threw(e) == [state |-> "threw", js |-> JsUndefined, body |-> EmptyBody, error |-> e]
Pending == [state |-> "pending", js |-> JsUndefined, body |-> EmptyBody, error |-> NoError]

----------------------------------------------------------------------------
(* KeyClaimClient *)

DefaultTtl == 30

NoClient == [exists |-> FALSE, apiKey |-> "", secret |-> "", authorization |-> ""]

\* the fields the constructor sets; the axios instance is its Authorization header
ClientFields(apiKey, secret) ==
    [exists |-> TRUE, apiKey |-> apiKey, secret |-> secret,
     authorization |-> "Bearer " \o apiKey]

\* the arguments of new KeyClaimClient: (apiKey, secret?) or ({apiKey, secret?})
CtorCall(form, apiKey, secret) == [form |-> form, apiKey |-> apiKey, secret |-> secret]
NoCtorCall == CtorCall("none", JsUndefined, JsUndefined)

\* mutant: the default taken with ?? (only an undefined secret falls back)
ConstructorSecretNullish(args) == DefaultParam(args.secret, args.apiKey)

\* this.secret = secret || config, this.secret = config.secret || config.apiKey
ConstructorSecret(args) == JsOr(args.secret, args.apiKey)

\* the constructor: the error it throws (NoError when it returns) and the client
Constructor(args) ==
    IF args.form = "positional" /\ args.apiKey.t # "string"
    THEN \* typeof config !== 'string': config.apiKey is read from the first argument
         [error |-> TypeError("Cannot read properties of undefined (reading 'apiKey')"),
          client |-> NoClient]
    ELSE IF ~Truthy(args.apiKey) \/ ~StartsWith(args.apiKey.s, "kc_")
    THEN [error |-> KeyClaimError("Invalid API key format. API key must start with \"kc_\"",
                                  JsUndefined, JsUndefined),
          client |-> NoClient]
    ELSE [error |-> NoError,
          client |-> ClientFields(args.apiKey.s, ConstructorSecret(args).s)]

\* the text the custom method hashes
CustomInput(challenge, customData) ==
    IF customData.t = "string"
    THEN ToStr(challenge) \o ":" \o customData.s
    ELSE ToStr(challenge) \o ":" \o JsonStringify(customData)

\* the guard of the custom method: !customData
CustomDataMissing(customData) == ~Truthy(customData)

\* the secret generateResponse keys its digests with
ResponseSecret(c) == c.secret

generateResponse(c, challenge, method, customData) ==
    LET m == DefaultParam(method, JsString("hmac")).s
    IN  CASE m = "echo" -> ReturnedJs(challenge)
          [] m = "hmac" ->
                IF challenge.t = "string"
                THEN ReturnedJs(JsString(HmacSha256Hex(ResponseSecret(c), challenge.s)))
                ELSE Threw(TypeError("The \"data\" argument must be of type string"))
          [] m = "hash" ->
                ReturnedJs(JsString(Sha256Hex(ToStr(challenge) \o ResponseSecret(c))))
          [] m = "custom" ->
                IF CustomDataMissing(customData)
                THEN Threw(KeyClaimError("Custom data is required for custom method",
                                         JsUndefined, JsUndefined))
                ELSE ReturnedJs(JsString(Sha256Hex(CustomInput(challenge, customData))))
          [] OTHER ->
                Threw(KeyClaimError("Unknown response method: " \o m,
                                    JsUndefined, JsUndefined))

handleError(error, defaultMessage) ==
    IF error.hasResponse
    THEN LET errorData == error.reply.data
             errorMessage == JsOr(JsOr(BodyError(errorData), BodyMessage(errorData)),
                                  JsString(error.message))
         IN  KeyClaimError(ToStr(JsOr(errorMessage, JsString(defaultMessage))),
                           BodyError(errorData), JsNumber(error.reply.status))
    ELSE IF error.hasRequest
    THEN KeyClaimError("Network error: No response received from server",
                       JsString("network_error"), JsUndefined)
    ELSE KeyClaimError(ToStr(JsOr(JsString(error.message), JsString(defaultMessage))),
                       JsString("unknown_error"), JsUndefined)

\* a request as the axios instance sends it
Request(path, c, ttl, challenge, response, decryptedChallenge) ==
    [path |-> path, authorization |-> c.authorization, ttl |-> ttl,
     challenge |-> challenge, response |-> response,
     decryptedChallenge |-> decryptedChallenge]

\* the ttl createChallenge puts in the body: options.ttl || 30
CreateTtl(ttl) == JsOr(ttl, JsNumber(DefaultTtl))

createChallengeRequest(c, ttl) ==
    Request("/challenge/create", c, CreateTtl(ttl), JsUndefined, JsUndefined, JsUndefined)

\* createChallenge once its request settled
createChallengeSettled(reply) ==
    IF Is2xx(reply)
    THEN ReturnedBody(reply.data)
    ELSE Threw(handleError(AxiosError(reply), "Failed to create challenge"))

validateChallengeRequest(c, challenge, response, decryptedChallenge) ==
    Request("/challenge/validate", c, JsUndefined, challenge, response, decryptedChallenge)

\* mutant: the failure response's body handed back as it came
SynthesizedResultVerbatim(data) == data

\* the object validateChallenge builds for a failure response that has `valid`
SynthesizedResult(data) ==
    ObjectBody(TRUE, JsBoolean(FALSE), JsOr(data.error, JsString("Validation failed")),
               JsUndefined, JsUndefined, JsUndefined, JsUndefined)

\* validateChallenge once its request settled
validateChallengeSettled(reply) ==
    IF Is2xx(reply)
    THEN ReturnedBody(reply.data)
    ELSE LET error == AxiosError(reply)
         IN  IF error.hasResponse /\ BodyTruthy(reply.data)
             THEN IF reply.data.kind = "text"
                  THEN \* 'valid' in <string> throws inside the catch block
                       Threw(TypeError("Cannot use 'in' operator to search for 'valid' in "
                                       \o reply.data.text))
                  ELSE IF reply.data.hasValid
                  THEN ReturnedBody(SynthesizedResult(reply.data))
                  ELSE Threw(handleError(error, "Failed to validate challenge"))
             ELSE Threw(handleError(error, "Failed to validate challenge"))

\* the catch block of validate()
validateCatch(outcome) ==
    IF outcome.state = "threw"
    THEN Threw(handleError(outcome.error, "Validation flow failed"))
    ELSE outcome

\* validate(): the ttl handed to createChallenge({ ttl })
validateTtl(ttl) == DefaultParam(ttl, JsNumber(DefaultTtl))

\* mutant: a throwing generateResponse is swallowed and the validation request
\* is sent without a response
validateAfterCreateIgnoringGenerate(c, method, customData, reply) ==
    LET created == createChallengeSettled(reply)
        challenge == BodyChallenge(created.body)
        generated == generateResponse(c, challenge, DefaultParam(method, JsString("hmac")),
                                      customData)
    IN  IF created.state = "threw"
        THEN [outcome |-> validateCatch(created), send |-> <<>>]
        ELSE [outcome |-> Pending,
              send |-> <<validateChallengeRequest(c, challenge, generated.js, JsUndefined)>>]

\* validate() from the settling of its creation request to its validation request:
\* the outcome when it ends there, else Pending and the request to send
validateAfterCreate(c, method, customData, reply) ==
    LET created == createChallengeSettled(reply)
        challenge == BodyChallenge(created.body)
        generated == generateResponse(c, challenge, DefaultParam(method, JsString("hmac")),
                                      customData)
    IN  IF created.state = "threw"
        THEN [outcome |-> validateCatch(created), send |-> <<>>]
        ELSE IF generated.state = "threw"
        THEN [outcome |-> validateCatch(generated), send |-> <<>>]
        ELSE [outcome |-> Pending,
              send |-> <<validateChallengeRequest(c, challenge, generated.js, JsUndefined)>>]

\* mutant: a validation step that did not throw is reported as valid
validateAfterValidateAssumeValid(reply) ==
    IF validateChallengeSettled(reply).state = "returned"
    THEN ReturnedBody(ObjectBody(TRUE, JsBoolean(TRUE), JsUndefined, JsUndefined,
                                 JsUndefined, JsUndefined, JsUndefined))
    ELSE validateCatch(validateChallengeSettled(reply))

\* validate() once its validation request settled
validateAfterValidate(reply) == validateCatch(validateChallengeSettled(reply))

----------------------------------------------------------------------------
(* The inputs the model draws from *)

ApiKeyArgs == {JsUndefined, JsString(""), JsString("ab_1"), JsString("kc_a")}
SecretArgs == {JsUndefined, JsString(""), JsString("s")}
CtorArgs ==
    {CtorCall(f, k, s) : f \in {"positional", "object"}, k \in ApiKeyArgs, s \in SecretArgs}

Challenges == {"abc123", "c2"}
MethodArgs ==
    {JsUndefined, JsString("echo"), JsString("hmac"), JsString("hash"),
     JsString("custom"), JsString("md5")}
CustomDataArgs ==
    {JsUndefined, JsString(""), JsNumber(0), JsBoolean(FALSE), JsString("1"),
     JsNumber(1), JsObject("{\"a\":1}"), JsString("{\"a\":1}")}
TtlArgs == {JsUndefined, JsNumber(0), JsNumber(60)}
ResponseArgs == {JsString("abc123"), JsString("wrong")}

\* the arguments of validate() in the flows: data that is absent, falsy, present
FlowDataArgs == {JsUndefined, JsNumber(0), JsString("1")}

\* bodies of the creation endpoint on success; the client reads `challenge` only
CreatedBody(challenge) ==
    ObjectBody(FALSE, JsUndefined, JsUndefined, JsUndefined, challenge, JsUndefined,
               JsUndefined)
\* bodies of either endpoint on failure that carry no verdict
ErrorBody(error, message) ==
    ObjectBody(FALSE, JsUndefined, error, message, JsUndefined, JsUndefined, JsUndefined)
\* bodies of the validation endpoint that carry a verdict
VerdictBody(valid, error, signature, quota) ==
    ObjectBody(TRUE, JsBoolean(valid), error, JsUndefined, JsUndefined, signature, quota)

FailureStatuses == {400, 500}
PlainFailureBodies ==
    {ErrorBody(JsString("rate_limited"), JsUndefined),
     ErrorBody(JsUndefined, JsString("Internal error")),
     ErrorBody(JsUndefined, JsUndefined),
     EmptyBody,
     TextBody("<html>")}
VerdictFailureBodies ==
    {VerdictBody(FALSE, e, JsUndefined, JsUndefined) :
        e \in {JsUndefined, JsString(""), JsString("expired")}}
    \cup {VerdictBody(TRUE, JsUndefined, JsString("sig"), JsObject("{\"used\":1}"))}

CreateReplies ==
    {HttpReply(200, CreatedBody(JsString(ch))) : ch \in Challenges}
    \cup {HttpReply(200, CreatedBody(JsUndefined))}
    \cup {HttpReply(st, b) : st \in FailureStatuses, b \in PlainFailureBodies}
    \cup {NoReply}

ValidateReplies ==
    {HttpReply(200, VerdictBody(TRUE, JsUndefined, JsString("sig"), JsObject("{\"used\":1}"))),
     HttpReply(200, VerdictBody(FALSE, JsString("mismatch"), JsUndefined, JsUndefined))}
    \cup {HttpReply(st, b) : st \in FailureStatuses,
                             b \in PlainFailureBodies \cup VerdictFailureBodies}
    \cup {NoReply}

\* the smaller inputs of the runs with several calls in progress at once
ConcCtorArgs ==
    {CtorCall(f, k, s) : f \in {"positional", "object"},
                         k \in {JsString("ab_1"), JsString("kc_a")}, s \in SecretArgs}
ConcMethodArgs == {JsString("echo"), JsString("hmac")}
ConcCreateReplies ==
    {HttpReply(200, CreatedBody(JsString(ch))) : ch \in Challenges}
    \cup {HttpReply(401, ErrorBody(JsString("invalid_api_key"), JsUndefined)), NoReply}
ConcValidateReplies ==
    {HttpReply(200, VerdictBody(TRUE, JsUndefined, JsString("sig"), JsUndefined)),
     HttpReply(200, VerdictBody(FALSE, JsString("mismatch"), JsUndefined, JsUndefined)),
     HttpReply(400, VerdictBody(FALSE, JsString("expired"), JsUndefined, JsUndefined)),
     HttpReply(500, TextBody("<html>")),
     NoReply}

----------------------------------------------------------------------------
(* The state machine *)

\* one call of a method of the client: its arguments, the requests it sent, the
\* replies it got, and how it ended
Call(kind, pc, challenge, method, ttl, data, response, sent, got, outcome) ==
    [kind |-> kind, pc |-> pc, challenge |-> challenge, method |-> method,
     ttl |-> ttl, data |-> data, response |-> response,
     sent |-> sent, got |-> got, outcome |-> outcome]

NoCall ==
    Call("none", "idle", JsUndefined, JsUndefined, JsUndefined, JsUndefined, JsUndefined,
         <<>>, <<>>, Pending)

Init ==
    /\ ctorArgs = NoCtorCall
    /\ ctorError = NoError
    /\ client = NoClient
    /\ calls = [c \in CallIds |-> NoCall]

\* new KeyClaimClient(...) / createClient(...)
Construct(args) ==
    /\ ctorArgs = NoCtorCall
    /\ ctorArgs' = args
    /\ ctorError' = Constructor(args).error
    /\ client' = Constructor(args).client
    /\ UNCHANGED calls

\* client.generateResponse(challenge, method, customData): synchronous
GenerateResponse(c, challenge, method, data) ==
    /\ client.exists
    /\ calls[c].pc = "idle"
    /\ calls' = [calls EXCEPT ![c] =
                    Call("generateResponse", "done", challenge, method, JsUndefined, data,
                         JsUndefined, <<>>, <<>>,
                         generateResponse(client, challenge, method, data))]
    /\ UNCHANGED <<ctorArgs, ctorError, client>>

\* client.createChallenge({ ttl }) up to its await
createChallenge(c, ttl) ==
    /\ client.exists
    /\ calls[c].pc = "idle"
    /\ calls' = [calls EXCEPT ![c] =
                    Call("createChallenge", "awaitCreate", JsUndefined, JsUndefined, ttl,
                         JsUndefined, JsUndefined,
                         <<createChallengeRequest(client, ttl)>>, <<>>, Pending)]
    /\ UNCHANGED <<ctorArgs, ctorError, client>>

\* the creation request of a createChallenge call settles
CreateChallengeSettles(c, reply) ==
    /\ calls[c].kind = "createChallenge"
    /\ calls[c].pc = "awaitCreate"
    /\ calls' = [calls EXCEPT ![c].pc = "done",
                              ![c].got = Append(@, reply),
                              ![c].outcome = createChallengeSettled(reply)]
    /\ UNCHANGED <<ctorArgs, ctorError, client>>

\* client.validateChallenge({ challenge, response }) up to its await
validateChallenge(c, challenge, response) ==
    /\ client.exists
    /\ calls[c].pc = "idle"
    /\ calls' = [calls EXCEPT ![c] =
                    Call("validateChallenge", "awaitValidate", challenge, JsUndefined,
                         JsUndefined, JsUndefined, response,
                         <<validateChallengeRequest(client, challenge, response, JsUndefined)>>,
                         <<>>, Pending)]
    /\ UNCHANGED <<ctorArgs, ctorError, client>>

\* the validation request of a validateChallenge call settles
ValidateChallengeSettles(c, reply) ==
    /\ calls[c].kind = "validateChallenge"
    /\ calls[c].pc = "awaitValidate"
    /\ calls' = [calls EXCEPT ![c].pc = "done",
                              ![c].got = Append(@, reply),
                              ![c].outcome = validateChallengeSettled(reply)]
    /\ UNCHANGED <<ctorArgs, ctorError, client>>

\* client.validate(method, ttl, customData) up to its first await
validate(c, method, ttl, data) ==
    /\ client.exists
    /\ calls[c].pc = "idle"
    /\ calls' = [calls EXCEPT ![c] =
                    Call("validate", "awaitCreate", JsUndefined, method, ttl, data,
                         JsUndefined,
                         <<createChallengeRequest(client, validateTtl(ttl))>>, <<>>, Pending)]
    /\ UNCHANGED <<ctorArgs, ctorError, client>>

\* mutant: the challenge is read from a place all calls share, so a validate call
\* continues with the challenge another call's creation reply left there
ValidateCreateSettlesShared(c, reply) ==
    /\ calls[c].kind = "validate"
    /\ calls[c].pc = "awaitCreate"
    /\ LET others == {d \in CallIds \ {c} :
                        /\ calls[d].kind \in {"validate", "createChallenge"}
                        /\ Len(calls[d].got) >= 1
                        /\ Is2xx(calls[d].got[1])}
           used == IF Is2xx(reply) /\ others # {}
                   THEN calls[CHOOSE d \in others : TRUE].got[1]
                   ELSE reply
           next == validateAfterCreate(client, calls[c].method, calls[c].data, used)
       IN  calls' = [calls EXCEPT
                        ![c].pc = IF next.send = <<>> THEN "done" ELSE "awaitValidate",
                        ![c].got = Append(@, reply),
                        ![c].sent = @ \o next.send,
                        ![c].outcome = next.outcome]
    /\ UNCHANGED <<ctorArgs, ctorError, client>>

\* the creation request of a validate call settles: the call ends, or generates
\* the response and sends its validation request
ValidateCreateSettles(c, reply) ==
    /\ calls[c].kind = "validate"
    /\ calls[c].pc = "awaitCreate"
    /\ LET next == validateAfterCreate(client, calls[c].method, calls[c].data, reply)
       IN  calls' = [calls EXCEPT
                        ![c].pc = IF next.send = <<>> THEN "done" ELSE "awaitValidate",
                        ![c].got = Append(@, reply),
                        ![c].sent = @ \o next.send,
                        ![c].outcome = next.outcome]
    /\ UNCHANGED <<ctorArgs, ctorError, client>>

\* the validation request of a validate call settles
ValidateValidationSettles(c, reply) ==
    /\ calls[c].kind = "validate"
    /\ calls[c].pc = "awaitValidate"
    /\ calls' = [calls EXCEPT ![c].pc = "done",
                              ![c].got = Append(@, reply),
                              ![c].outcome = validateAfterValidate(reply)]
    /\ UNCHANGED <<ctorArgs, ctorError, client>>

\* one call at a time, over the full inputs
Next ==
    \/ \E args \in CtorArgs : Construct(args)
    \/ \E ch \in Challenges, m \in MethodArgs, d \in CustomDataArgs :
          GenerateResponse(1, JsString(ch), m, d)
    \/ \E ttl \in TtlArgs : createChallenge(1, ttl)
    \/ \E reply \in CreateReplies : CreateChallengeSettles(1, reply)
    \/ \E ch \in Challenges, r \in ResponseArgs : validateChallenge(1, JsString(ch), r)
    \/ \E reply \in ValidateReplies : ValidateChallengeSettles(1, reply)
    \/ \E m \in MethodArgs, ttl \in TtlArgs, d \in FlowDataArgs : validate(1, m, ttl, d)
    \/ \E reply \in CreateReplies : ValidateCreateSettles(1, reply)
    \/ \E reply \in ValidateReplies : ValidateValidationSettles(1, reply)

Spec == Init /\ [][Next]_vars

\* several calls in progress at once, their requests settling in any order
NextConc ==
    \/ \E args \in ConcCtorArgs : Construct(args)
    \/ \E c \in CallIds, ch \in Challenges, m \in ConcMethodArgs \cup {JsString("hash")} :
          GenerateResponse(c, JsString(ch), m, JsUndefined)
    \/ \E c \in CallIds : createChallenge(c, JsUndefined)
    \/ \E c \in CallIds, reply \in ConcCreateReplies : CreateChallengeSettles(c, reply)
    \/ \E c \in CallIds, ch \in Challenges :
          validateChallenge(c, JsString(ch), JsString("abc123"))
    \/ \E c \in CallIds, reply \in ConcValidateReplies : ValidateChallengeSettles(c, reply)
    \/ \E c \in CallIds, m \in ConcMethodArgs : validate(c, m, JsUndefined, JsUndefined)
    \/ \E c \in CallIds, reply \in ConcCreateReplies : ValidateCreateSettles(c, reply)
    \/ \E c \in CallIds, reply \in ConcValidateReplies : ValidateValidationSettles(c, reply)

SpecConc == Init /\ [][NextConc]_vars

----------------------------------------------------------------------------
(* Properties *)

MethodOf(c) == DefaultParam(calls[c].method, JsString("hmac")).s
StandardMethods == {"echo", "hmac", "hash"}

\* the reply to the validation request of call c, when it has arrived
HasValidationReply(c) ==
    \/ calls[c].kind = "validateChallenge" /\ Len(calls[c].got) = 1
    \/ calls[c].kind = "validate" /\ Len(calls[c].got) = 2
ValidationReply(c) == calls[c].got[Len(calls[c].got)]

\* a failure response whose body is an object with a `valid` field
IsVerdictFailure(reply) ==
    reply.arrived /\ ~Is2xx(reply) /\ reply.data.kind = "object" /\ reply.data.hasValid

\* echo, hmac and hash as the specification words them
ExpectedResponse(challenge, method, secret) ==
    CASE method = "echo" -> challenge
      [] method = "hmac" -> HmacSha256Hex(secret, challenge)
      [] method = "hash" -> Sha256Hex(challenge \o secret)

GenerateResponseIsFunctionOf(secret) ==
    /\ \A c \in CallIds :
          (calls[c].kind = "generateResponse" /\ MethodOf(c) \in StandardMethods)
          => calls[c].outcome =
                ReturnedJs(JsString(ExpectedResponse(calls[c].challenge.s, MethodOf(c), secret)))
    /\ \A c, d \in CallIds :
          (/\ calls[c].kind = "generateResponse" /\ calls[d].kind = "generateResponse"
           /\ calls[c].challenge = calls[d].challenge /\ MethodOf(c) = MethodOf(d)
           /\ MethodOf(c) \in StandardMethods)
          => calls[c].outcome = calls[d].outcome
    /\ client.exists => (client.apiKey = ctorArgs.apiKey.s /\ client.secret = secret)

ValidateChallengeOnVerdictFailure(c) ==
    /\ calls[c].kind = "validateChallenge"
    /\ calls[c].pc = "done"
    /\ IsVerdictFailure(calls[c].got[1])

\* C2 as claimed: on a failure response whose body has a `valid` field,
\* validateChallenge returns exactly {valid: false, error: E}, E the body's error
\* if present and "Validation failed" otherwise.
C2_ErrorIfPresent ==
    \A c \in CallIds :
        ValidateChallengeOnVerdictFailure(c)
        => LET data == calls[c].got[1].data
               E == IF data.error.t # "undefined" THEN data.error
                    ELSE JsString("Validation failed")
           IN  calls[c].outcome =
                 ReturnedBody(ObjectBody(TRUE, JsBoolean(FALSE), E, JsUndefined, JsUndefined,
                                         JsUndefined, JsUndefined))

\* C2 as amended: on a failure response whose body has a `valid` field,
\* validateChallenge returns exactly {valid: false, error: E}, E the body's error
\* if present and not empty, and "Validation failed" otherwise; whatever the
\* body's `valid`, and without signature or quota.
C2_ErrorIfNonEmpty ==
    \A c \in CallIds :
        ValidateChallengeOnVerdictFailure(c)
        => LET data == calls[c].got[1].data
               E == IF data.error.t = "string" /\ data.error.s # "" THEN data.error
                    ELSE JsString("Validation failed")
           IN  calls[c].outcome =
                 ReturnedBody(ObjectBody(TRUE, JsBoolean(FALSE), E, JsUndefined, JsUndefined,
                                         JsUndefined, JsUndefined))

\* C2 witness: a 400 with body {valid: false, error: "expired"} was returned as
\* {valid: false, error: "expired"}
C2_Witness ==
    \E c \in CallIds :
        /\ ValidateChallengeOnVerdictFailure(c)
        /\ calls[c].got[1] =
             HttpReply(400, VerdictBody(FALSE, JsString("expired"), JsUndefined, JsUndefined))
        /\ calls[c].outcome.state = "returned"
        /\ calls[c].outcome.body.error = JsString("expired")

\* C3 as claimed: every failure of validateChallenge's request other than a
\* failure response with a `valid` field (no response, an empty body, an object
\* without `valid`, a text body) is thrown as a KeyClaimError.
C3_OtherFailuresThrowKeyClaimError ==
    \A c \in CallIds :
        (/\ calls[c].kind = "validateChallenge"
         /\ calls[c].pc = "done"
         /\ ~Is2xx(calls[c].got[1])
         /\ ~IsVerdictFailure(calls[c].got[1]))
        => (calls[c].outcome.state = "threw"
            /\ calls[c].outcome.error.name = "KeyClaimError")

\* C4: validateChallenge and validate() return valid = true only for a 2xx reply
\* to their own validation request whose body has valid = true, and a 2xx body
\* (valid or not) is returned unchanged; validate() returns what its validation
\* step returned.
C4_ValidOnlyFromServer ==
    \A c \in CallIds :
        (calls[c].kind \in {"validateChallenge", "validate"} /\ calls[c].pc = "done")
        => /\ (calls[c].outcome.state = "returned"
               /\ calls[c].outcome.body.valid = JsBoolean(TRUE))
              => (/\ HasValidationReply(c)
                  /\ calls[c].sent[Len(calls[c].sent)].path = "/challenge/validate"
                  /\ ValidationReply(c).arrived
                  /\ ValidationReply(c).status \in 200 .. 299
                  /\ ValidationReply(c).data.valid = JsBoolean(TRUE))
           /\ (HasValidationReply(c) /\ ValidationReply(c).arrived
               /\ ValidationReply(c).status \in 200 .. 299)
              => calls[c].outcome = ReturnedBody(ValidationReply(c).data)
           /\ (calls[c].kind = "validate" /\ HasValidationReply(c)
               /\ validateChallengeSettled(ValidationReply(c)).state = "returned")
              => calls[c].outcome = validateChallengeSettled(ValidationReply(c))

\* C4 witness: a validate() call returned valid = true, and it had a 2xx reply
C4_Witness ==
    \E c \in CallIds :
        /\ calls[c].kind = "validate" /\ calls[c].pc = "done"
        /\ calls[c].outcome.state = "returned"
        /\ calls[c].outcome.body.valid = JsBoolean(TRUE)
        /\ calls[c].outcome.body.signature = JsString("sig")

\* the classification of an error: message, code, statusCode
Classification(e) == <<e.message, e.code, e.statusCode>>

\* C5 as claimed: when validate() fails in its creation or validation stage, its
\* KeyClaimError has the message, code and statusCode that createChallenge or
\* validateChallenge, called directly, would have thrown for the same reply.
C5_ValidateKeepsClassification ==
    \A c \in CallIds :
        (calls[c].kind = "validate" /\ calls[c].pc = "done"
         /\ calls[c].outcome.state = "threw")
        => LET stage == IF Len(calls[c].got) = 1
                        THEN createChallengeSettled(calls[c].got[1])
                        ELSE validateChallengeSettled(calls[c].got[2])
           IN  (stage.state = "threw" /\ stage.error.name = "KeyClaimError")
               => Classification(calls[c].outcome.error) = Classification(stage.error)

\* data that is absent or empty
AbsentOrEmpty(data) == data.t = "undefined" \/ (data.t = "string" /\ data.s = "")

\* the string form of custom data: itself if a string, else its serialization
StringForm(data) == IF data.t = "string" THEN data.s ELSE JsonStringify(data)

\* C6 as claimed: the custom method throws a KeyClaimError exactly when the data
\* is absent or empty, returns SHA-256(challenge ":" string form) for every other
\* value, 0 and false included, and different data give different hashed inputs.
C6_CustomFailsOnlyWithoutData ==
    \A c \in CallIds :
        (calls[c].kind = "generateResponse" /\ MethodOf(c) = "custom")
        => IF AbsentOrEmpty(calls[c].data)
           THEN calls[c].outcome.state = "threw"
                /\ calls[c].outcome.error.name = "KeyClaimError"
           ELSE /\ calls[c].outcome =
                     ReturnedJs(JsString(Sha256Hex(calls[c].challenge.s \o ":"
                                                   \o StringForm(calls[c].data))))
                /\ \A other \in CustomDataArgs :
                      (~AbsentOrEmpty(other) /\ other # calls[c].data)
                      => CustomInput(calls[c].challenge, other)
                           # CustomInput(calls[c].challenge, calls[c].data)

\* requests sent so far, by any call
SentRequests == UNION {{calls[c].sent[i] : i \in 1 .. Len(calls[c].sent)} : c \in CallIds}

\* C7 as claimed: in both forms construction throws a KeyClaimError exactly when
\* the API key is missing or lacks the "kc_" prefix, then no client exists; and
\* every request carries the bearer credential of a "kc_" key, the one given.
C7_ConstructionRejectsWithKeyClaimError ==
    ctorArgs # NoCtorCall
    => LET bad == ctorArgs.apiKey.t # "string" \/ ~StartsWith(ctorArgs.apiKey.s, "kc_")
       IN  /\ bad => (ctorError.name = "KeyClaimError" /\ ~client.exists
                      /\ SentRequests = {})
           /\ ~bad => (ctorError = NoError /\ client.exists)
           /\ \A r \in SentRequests :
                 /\ StartsWith(ctorArgs.apiKey.s, "kc_")
                 /\ r.authorization = "Bearer " \o ctorArgs.apiKey.s

\* C8 as claimed: the creation request carries the caller's ttl whenever one was
\* supplied and 30 only when none was, for createChallenge and for validate.
C8_CallerTtlIsSent ==
    \A c \in CallIds :
        calls[c].kind \in {"createChallenge", "validate"}
        => /\ calls[c].sent[1].path = "/challenge/create"
           /\ calls[c].sent[1].ttl =
                IF calls[c].ttl.t = "undefined" THEN JsNumber(30) ELSE calls[c].ttl

\* what a call's own arguments and own replies determine about how it stands
OwnOutcome(c) ==
    CASE calls[c].kind = "createChallenge" /\ Len(calls[c].got) = 1
            -> createChallengeSettled(calls[c].got[1])
      [] calls[c].kind = "validateChallenge" /\ Len(calls[c].got) = 1
            -> validateChallengeSettled(calls[c].got[1])
      [] calls[c].kind = "validate" /\ Len(calls[c].got) = 1
            -> validateAfterCreate(client, calls[c].method, calls[c].data,
                                   calls[c].got[1]).outcome
      [] calls[c].kind = "validate" /\ Len(calls[c].got) = 2
            -> validateAfterValidate(calls[c].got[2])
      [] calls[c].kind = "generateResponse"
            -> generateResponse(client, calls[c].challenge, calls[c].method, calls[c].data)
      [] OTHER -> Pending

\* the validation request of a validate call pairs the challenge of the call's
\* own creation reply with the response generated from that challenge
OwnChallengeSubmitted(c) ==
    (calls[c].kind = "validate" /\ Len(calls[c].sent) = 2)
    => LET challenge == BodyChallenge(calls[c].got[1].data)
       IN  /\ Is2xx(calls[c].got[1])
           /\ calls[c].sent[2].path = "/challenge/validate"
           /\ calls[c].sent[2].challenge = challenge
           /\ calls[c].sent[2].response =
                generateResponse(client, challenge,
                                 DefaultParam(calls[c].method, JsString("hmac")),
                                 calls[c].data).js

\* C9: with calls in progress at once and their requests settling in any order,
\* each validate call submits the challenge of its own creation reply with the
\* response derived from it, each call's outcome is the one its own replies
\* determine, and the client's apiKey and secret stay those of construction.
C9_CallsDoNotInterfere ==
    /\ \A c \in CallIds : OwnChallengeSubmitted(c)
    /\ \A c \in CallIds : calls[c].outcome = OwnOutcome(c)
    /\ client.exists => client = Constructor(ctorArgs).client

\* C9 witness: two validate calls await their validation replies at once, holding
\* different challenges, each request carrying the response for its own challenge
C9_Witness ==
    \E c, d \in CallIds :
        /\ calls[c].kind = "validate" /\ calls[c].pc = "awaitValidate"
        /\ calls[d].kind = "validate" /\ calls[d].pc = "awaitValidate"
        /\ MethodOf(c) = "hmac" /\ MethodOf(d) = "hmac"
        /\ calls[c].sent[2].challenge = JsString("abc123")
        /\ calls[d].sent[2].challenge = JsString("c2")
        /\ calls[d].sent[2].response # calls[c].sent[2].response

\* C10: a validate() call sends at most one creation request and then at most one
\* validation request; the validation request follows a successful creation and
\* a successful generation and carries the creation reply's challenge and the
\* response generated from it; when creation fails or generation throws, none is
\* sent and the call ends with a KeyClaimError.
C10_ValidateIsSequential ==
    \A c \in CallIds :
        calls[c].kind = "validate"
        => LET generated ==
                   generateResponse(client, BodyChallenge(calls[c].got[1].data),
                                    DefaultParam(calls[c].method, JsString("hmac")),
                                    calls[c].data)
           IN  /\ Len(calls[c].sent) \in {1, 2}
               /\ Len(calls[c].got) <= Len(calls[c].sent)
               /\ calls[c].sent[1].path = "/challenge/create"
               /\ Len(calls[c].sent) = 2
                  => (/\ calls[c].sent[2].path = "/challenge/validate"
                      /\ Is2xx(calls[c].got[1])
                      /\ generated.state = "returned"
                      /\ calls[c].sent[2].challenge = BodyChallenge(calls[c].got[1].data)
                      /\ calls[c].sent[2].response = generated.js)
               /\ (Len(calls[c].got) >= 1
                   /\ (~Is2xx(calls[c].got[1]) \/ generated.state = "threw"))
                  => (/\ Len(calls[c].sent) = 1
                      /\ calls[c].pc = "done"
                      /\ calls[c].outcome.state = "threw"
                      /\ calls[c].outcome.error.name = "KeyClaimError")

\* C10 witness: creation succeeded, generation threw (custom without usable
\* data), and the call ended with one request sent
C10_Witness ==
    \E c \in CallIds :
        /\ calls[c].kind = "validate" /\ calls[c].pc = "done"
        /\ MethodOf(c) = "custom"
        /\ Len(calls[c].got) = 1 /\ Is2xx(calls[c].got[1])
        /\ Len(calls[c].sent) = 1
        /\ calls[c].outcome.state = "threw"

====
